---------------------------- MODULE Spec2Model ----------------------------
(***************************************************************************)
(* Model of generate_data.py: the five per-sensor stream generators, the   *)
(* pattern models they call, and main's loop over the patients.            *)
(*                                                                         *)
(* Units.  Python floats are modelled as scaled integers:                  *)
(*   elapsed time t ............ centiseconds (0.01 s)                     *)
(*   timestamps ................ milliseconds since BASE_TIME              *)
(*   random.random() ........... permille, 0..999                          *)
(*   gaussian sample ........... thousandths of a standard deviation       *)
(*   bpm base, spo2, temp ...... thousandths before rounding               *)
(*   duration_hours ............ half seconds (1/7200 h), so that          *)
(*                               int(duration_hours * 3600) truncates      *)
(*   offsets, gap bounds ....... seconds, as in PATIENT_CONFIGS            *)
(*                                                                         *)
(* The process-wide random stream (random.seed(42), then random.random,    *)
(* uniform, gauss, randint) is a deterministic function of its state; it   *)
(* is modelled by a full-period linear congruential generator, one state   *)
(* transition per call.  A generator iteration receives the draws it may   *)
(* consume as a function d (d[1] is the first draw of the iteration) and   *)
(* reports how many it used.                                               *)
(***************************************************************************)
EXTENDS Integers, Sequences, FiniteSets

VARIABLES
    configs,   \* PATIENT_CONFIGS: the sequence of patient configurations
    env,       \* what differs between two launches (clock, pid); never read
    rng,       \* state of the shared random stream
    patient,   \* main: index of the patient being generated
    pc,        \* main: the generator being run, or "done"
    phase,     \* "entry" before a generator's locals are set, "loop" inside
    t,         \* generator local: elapsed time
    drift,     \* generate_heart_rate_data local: drift_rate (ppm)
    ambient,   \* generate_temperature_data local: ambient_temp (thousandths)
    data,      \* generator local: the list of records built so far
    files,     \* what save_csv / save_json have written: <<patient, channel>> -> rows
    twin       \* a second launch of the program (state record), for two-run properties

vars == <<configs, env, rng, patient, pc, phase, t, drift, ambient, data, files, twin>>

----------------------------------------------------------------------------
(* Bounds of the model *)

MaxSeedOffset == 4
MaxPatients == 2
MaxProbeSeed == 40

----------------------------------------------------------------------------
(* Arithmetic helpers *)

Max(a, b) == IF a >= b THEN a ELSE b

Min(a, b) == IF a <= b THEN a ELSE b

Abs(a) == IF a >= 0 THEN a ELSE -a

\* int(): truncation toward zero of a / b, b > 0
Quot(a, b) == IF a >= 0 THEN a \div b ELSE -((-a) \div b)

\* round(): a / b to the nearest integer, b > 0
RoundDiv(a, b) == IF a >= 0 THEN (2 * a + b) \div (2 * b) ELSE -((2 * (-a) + b) \div (2 * b))

\* Newton's iteration for the integer square root of n, from the estimate x
SqrtIter[n \in Nat, x \in Nat] ==
    LET y == (x + n \div x) \div 2
    IN  IF y >= x THEN x ELSE SqrtIter[n, y]

\* math.sqrt, to the nearest integer
Sqrt[n \in Nat] ==
    IF n = 0 THEN 0
    ELSE LET r == SqrtIter[n, n]
         IN  IF n - r * r > r THEN r + 1 ELSE r

\* math.sin of c hundredths of a radian (c >= 0), in thousandths
\* (Bhaskara's rational approximation, |error| < 0.002; always in [-1000, 1000])
Sin1000(c) ==
    LET r == c % 628
        x == IF r < 314 THEN r ELSE r - 314
        p == x * (314 - x)
        v == (16000 * p) \div (492980 - 4 * p)
    IN  IF r < 314 THEN v ELSE -v

----------------------------------------------------------------------------
(* The shared random stream *)

RngMod == 65537

DefaultSeed == 42

\* random.seed() with no argument seeds from the clock / os.urandom
random_seed_from_env(a, e) == (a * 7919 + 1 + 104729 * e) % RngMod

\* random.seed(a): the state depends on a alone, not on the launch environment
random_seed(a, e) == (a * 7919 + 1) % RngMod

\* one state transition of the generator
RngNext(r) == (r * 75 + 74) % RngMod

\* the stream state k draws after state r
RngSkip[r \in Nat, k \in Nat] == IF k = 0 THEN r ELSE RngSkip[RngNext(r), k - 1]

\* the most draws one loop iteration consumes (generate_movement_data)
MaxDraws == 10

\* the draws an iteration starting in stream state r sees
StreamDraws(r) == [k \in 1..MaxDraws |-> RngSkip[r, k]]

\* random.random() < p, in permille
Random(raw) == (raw * 1000) \div RngMod

\* random.uniform(lo, hi) = lo + (hi - lo) * random()
Uniform(lo, hi, raw) == lo + ((hi - lo) * raw) \div RngMod

\* random.randint(lo, hi)
RandInt(lo, hi, raw) == lo + ((hi - lo + 1) * raw) \div RngMod

\* random.gauss(0, 1) in thousandths: inverse normal CDF by quantile; the two
\* extreme raw values stand for the far tails a float gauss can produce
Gauss(raw) ==
    LET q == Random(raw)
    IN  IF raw = 0 THEN -8600
        ELSE IF raw = RngMod - 1 THEN 8600
        ELSE IF q < 1 THEN -3300
        ELSE IF q < 6 THEN -2600
        ELSE IF q < 23 THEN -2000
        ELSE IF q < 67 THEN -1500
        ELSE IF q < 159 THEN -1000
        ELSE IF q < 309 THEN -500
        ELSE IF q < 401 THEN -250
        ELSE IF q < 599 THEN 0
        ELSE IF q < 691 THEN 250
        ELSE IF q < 841 THEN 500
        ELSE IF q < 933 THEN 1000
        ELSE IF q < 977 THEN 1500
        ELSE IF q < 994 THEN 2000
        ELSE IF q < 999 THEN 2600
        ELSE 3300

\* add_noise(value, noise_level): value * (1 + gauss(0, noise_level));
\* level in permille, z in thousandths of sigma
add_noise(value, level, z) == value + Quot(value * Quot(level * z, 1000), 1000)

----------------------------------------------------------------------------
(* Configuration *)

Channels == <<"heart_rate", "movement", "blood_oxygen", "temperature", "load">>

ChannelSet == {Channels[i] : i \in 1..Len(Channels)}

Patterns == {"morning_routine", "exercise_session", "resting"}

ChannelIndex(c) == CHOOSE i \in 1..Len(Channels) : Channels[i] = c

\* copy-paste slip: every generator reads the load channel's schedule
gaps_of_load_only(cfg, c) == cfg.gaps["load"]

\* config["hr_gaps"], config["movement_gaps"], ...: each generator reads its own
gaps_of(cfg, c) == cfg.gaps[c]

\* int(config["duration_hours"] * 3600), in seconds
nominal_seconds(cfg) == Quot(cfg.duration_hours, 2)

\* slip: the temperature generator's extended duration pasted into every generator
duration_of_extended(cfg, c) ==
    100 * Quot(cfg.duration_hours + 2 * (Abs(cfg.offset["temperature"]) + 600), 2)

\* the duration local of each generator, in centiseconds; temperature adds
\* extra_duration = abs(temp_offset.total_seconds()) + 600
duration_of(cfg, c) ==
    IF c = "temperature"
    THEN 100 * Quot(cfg.duration_hours + 2 * (Abs(cfg.offset["temperature"]) + 600), 2)
    ELSE 100 * nominal_seconds(cfg)

\* the 3-hour session the pattern models normalise by: t_seconds / (3 * 3600)
SessionCs == 3 * 3600 * 100

----------------------------------------------------------------------------
(* Activity pattern models *)

\* the branch simulate_heart_rate takes for "exercise_session":
\* normalized_t < 0.3, elif normalized_t < 0.7, else
HrPhase(tc) ==
    IF 10 * tc < 3 * SessionCs THEN "ramp_up"
    ELSE IF 10 * tc < 7 * SessionCs THEN "plateau"
    ELSE "ramp_down"

\* base_hr before noise, in thousandths of a beat
base_hr(tc, pattern) ==
    IF pattern = "morning_routine"
    THEN 65000 + 20 * Sin1000(((tc % 360000) * 628) \div 360000)
    ELSE IF pattern = "exercise_session"
    THEN IF HrPhase(tc) = "ramp_up" THEN 70000 + (tc * 10) \div 108
         ELSE IF HrPhase(tc) = "plateau" THEN 130000 + 20 * Sin1000(tc \div 540)
         ELSE 130000 - ((tc - 756000) * 5) \div 27
    ELSE 60000 + 5 * Sin1000(tc \div 600)

\* the same without the clamp: int(add_noise(base_hr, 0.03))
simulate_heart_rate_unclamped(tc, pattern, g) ==
    Quot(add_noise(base_hr(tc, pattern), 30, Gauss(g)), 1000)

\* max(45, min(185, int(add_noise(base_hr, 0.03)))); g is the gauss draw
simulate_heart_rate(tc, pattern, g) ==
    Max(45, Min(185, Quot(add_noise(base_hr(tc, pattern), 30, Gauss(g)), 1000)))

\* 0.3 < normalized_t < 0.7, the mid-phase test of the other pattern models
MidPhase(tc) == 3 * SessionCs < 10 * tc /\ 10 * tc < 7 * SessionCs

\* the three axis values (thousandths) with the number of draws they took
AxisDraws == [x : Int, y : Int, z : Int, used : Nat]

\* magnitude = math.sqrt(x**2 + y**2 + z**2), returned with the three axes
with_magnitude[a \in AxisDraws] ==
    [x |-> a.x, y |-> a.y, z |-> a.z,
     magnitude |-> Sqrt[a.x * a.x + a.y * a.y + a.z * a.z],
     used |-> a.used]

\* simulate_movement: x, y, z, magnitude in thousandths, and the draws used
\* starting at d[i]
simulate_movement(tc, pattern, d, i) ==
    LET gravity == 9810
        axes ==
            IF pattern = "exercise_session"
            THEN IF MidPhase(tc)
                 THEN [x |-> add_noise(Uniform(-2000, 2000, d[i]), 500, Gauss(d[i + 1])),
                       y |-> add_noise(-gravity + Uniform(-1000, 1000, d[i + 2]), 100, Gauss(d[i + 3])),
                       z |-> add_noise(Uniform(-2000, 2000, d[i + 4]), 500, Gauss(d[i + 5])),
                       used |-> 6]
                 ELSE [x |-> add_noise(Uniform(-200, 200, d[i]), 300, Gauss(d[i + 1])),
                       y |-> add_noise(-gravity, 10, Gauss(d[i + 2])),
                       z |-> add_noise(Uniform(-200, 200, d[i + 3]), 300, Gauss(d[i + 4])),
                       used |-> 5]
            ELSE IF pattern = "morning_routine"
            THEN IF Random(d[i]) < 100
                 THEN [x |-> add_noise(Uniform(-1000, 1000, d[i + 1]), 300, Gauss(d[i + 2])),
                       z |-> add_noise(Uniform(-1000, 1000, d[i + 3]), 300, Gauss(d[i + 4])),
                       y |-> add_noise(-gravity, 10, Gauss(d[i + 5])),
                       used |-> 6]
                 ELSE [x |-> add_noise(0, 100, Gauss(d[i + 1])),
                       z |-> add_noise(0, 100, Gauss(d[i + 2])),
                       y |-> add_noise(-gravity, 10, Gauss(d[i + 3])),
                       used |-> 4]
            ELSE [x |-> add_noise(0, 50, Gauss(d[i])),
                  y |-> add_noise(-gravity, 5, Gauss(d[i + 1])),
                  z |-> add_noise(0, 50, Gauss(d[i + 2])),
                  used |-> 3]
    IN  with_magnitude[axes]

\* simulate_spo2: tenths of a percent; draws d[i] (uniform), d[i + 1] (gauss)
simulate_spo2(tc, pattern, d, i) ==
    LET base_spo2 ==
            IF pattern = "exercise_session"
            THEN IF MidPhase(tc) THEN 96000 + Uniform(-1000, 1000, d[i])
                 ELSE 98000 + Uniform(-500, 500, d[i])
            ELSE 98000 + Uniform(-1000, 1000, d[i])
    IN  RoundDiv(Max(90000, Min(100000, add_noise(base_spo2, 10, Gauss(d[i + 1])))), 100)

\* simulate_temperature: hundredths of a degree; g is the gauss draw
simulate_temperature(tc, pattern, g) ==
    LET base_temp ==
            IF pattern = "exercise_session" /\ 10 * tc > 3 * SessionCs
            THEN 36500 + Min(1500, (tc - 324000) \div 360)
            ELSE 36500
    IN  RoundDiv(add_noise(base_temp, 5, Gauss(g)), 10)

\* simulate_load: the load score; r is the randint draw.  Tenths inside int().
simulate_load(tc, hr, pattern, r) ==
    IF pattern = "exercise_session"
    THEN IF MidPhase(tc)
         THEN Min(100, Max(0, Quot(500 + (hr - 100) * 5 + 10 * RandInt(-5, 5, r), 10)))
         ELSE Max(0, 20 + RandInt(-5, 5, r))
    ELSE IF pattern = "morning_routine"
    THEN Max(0, Min(100, Quot(250 + (hr - 70) * 3 + 10 * RandInt(-3, 3, r), 10)))
    ELSE Max(0, 10 + RandInt(-3, 3, r))

----------------------------------------------------------------------------
(* Imperfection layer *)

\* slip: "return False" indented into the for loop, so only the first gap is tested
is_in_first_gap(tc, gaps) ==
    IF gaps = <<>> THEN FALSE
    ELSE 100 * gaps[1][1] <= tc /\ tc < 100 * (gaps[1][1] + gaps[1][2])

\* for gap_start, gap_duration in gaps: gap_start <= t_seconds < gap_start + gap_duration
is_in_gap(tc, gaps) ==
    \E i \in 1..Len(gaps) :
        100 * gaps[i][1] <= tc /\ tc < 100 * (gaps[i][1] + gaps[i][2])

\* random.random() < probability (permille)
should_have_micro_dropout(probability, raw) == Random(raw) < probability

\* slip: the jitter alone is added, without the nominal period
tick_step_jitter_only(c, raw) ==
    IF c = "heart_rate" THEN Uniform(-15, 15, raw)
    ELSE IF c = "movement" THEN Uniform(-2, 2, raw)
    ELSE IF c = "blood_oxygen" THEN Uniform(-50, 50, raw)
    ELSE IF c = "temperature" THEN Uniform(-300, 300, raw)
    ELSE Uniform(-100, 100, raw)

\* t += random.uniform(lo, hi): the jittered sampling period of each generator
tick_step(c, raw) ==
    IF c = "heart_rate" THEN Uniform(85, 115, raw)
    ELSE IF c = "movement" THEN Uniform(8, 12, raw)
    ELSE IF c = "blood_oxygen" THEN Uniform(150, 250, raw)
    ELSE IF c = "temperature" THEN Uniform(800, 1400, raw)
    ELSE Uniform(400, 600, raw)

\* start_time + timedelta(seconds=t), in milliseconds since BASE_TIME
stamp_ms(cfg, c, tc) == 1000 * cfg.offset[c] + 10 * tc

\* heart rate: the error / low-confidence / normal branches; draws from d[i]
heart_rate_reading(hr, d, i) ==
    IF Random(d[i]) < 8
    THEN [bpm |-> -1, confidence |-> 0, used |-> 1]
    ELSE IF Random(d[i + 1]) < 30
    THEN [bpm |-> hr, confidence |-> RoundDiv(Uniform(200, 500, d[i + 2]), 10), used |-> 3]
    ELSE [bpm |-> hr, confidence |-> RoundDiv(Uniform(850, 990, d[i + 2]), 10), used |-> 3]

\* blood oxygen: if spo2 >= 97 good, elif spo2 >= 94 fair, else poor (tenths)
pulse_quality(spo2) ==
    IF spo2 >= 970 THEN "good" ELSE IF spo2 >= 940 THEN "fair" ELSE "poor"

\* slip: the erroneous value replaces spo2 but the quality is left as computed
corrupt_spo2_keep_quality(spo2, quality, d, i) ==
    IF Random(d[i]) < 5
    THEN [spo2 |-> RoundDiv(Uniform(65000, 84000, d[i + 1]), 100), quality |-> quality,
          error |-> TRUE, used |-> 2]
    ELSE IF Random(d[i + 1]) < 3
    THEN [spo2 |-> RoundDiv(Uniform(101000, 110000, d[i + 2]), 100), quality |-> quality,
          error |-> TRUE, used |-> 3]
    ELSE [spo2 |-> spo2, quality |-> quality, error |-> FALSE, used |-> 2]

\* blood oxygen: the two erroneous-reading branches; draws from d[i].
\* "error" is not a field of the record: it notes which branch ran.
corrupt_spo2(spo2, quality, d, i) ==
    IF Random(d[i]) < 5
    THEN [spo2 |-> RoundDiv(Uniform(65000, 84000, d[i + 1]), 100), quality |-> "poor",
          error |-> TRUE, used |-> 2]
    ELSE IF Random(d[i + 1]) < 3
    THEN [spo2 |-> RoundDiv(Uniform(101000, 110000, d[i + 2]), 100), quality |-> "poor",
          error |-> TRUE, used |-> 3]
    ELSE [spo2 |-> spo2, quality |-> quality, error |-> FALSE, used |-> 2]

\* load: if load < 20 rest, elif load < 50 walk, else exercise
activity_type(load) ==
    IF load < 20 THEN "rest" ELSE IF load < 50 THEN "walk" ELSE "exercise"

\* slip: the sentinel is stored but the activity label is left as computed
load_error_keep_activity(load, activity, raw) ==
    IF Random(raw) < 15
    THEN [load_score |-> -1, activity_type |-> activity]
    ELSE [load_score |-> load, activity_type |-> activity]

\* load: if random.random() < 0.015: load = -1; activity = "unknown"
load_error(load, activity, raw) ==
    IF Random(raw) < 15
    THEN [load_score |-> -1, activity_type |-> "unknown"]
    ELSE [load_score |-> load, activity_type |-> activity]

\* load: the three timestamp formats; strftime drops the fraction of a second
load_timestamp(ms, d, i) ==
    LET sec == ms \div 1000
    IN  IF Random(d[i]) < 300
        THEN [text |-> [format |-> "%Y-%m-%dT%H:%M:%SZ", sec |-> sec, millis |-> <<>>], used |-> 1]
        ELSE IF Random(d[i]) < 600
        THEN [text |-> [format |-> "%Y-%m-%dT%H:%M:%S.mmmZ", sec |-> sec,
                        millis |-> <<RandInt(0, 999, d[i + 1])>>], used |-> 2]
        ELSE [text |-> [format |-> "%Y/%m/%d %H:%M:%S", sec |-> sec, millis |-> <<>>], used |-> 1]

----------------------------------------------------------------------------
(* Per-sensor stream generators: one iteration of each "while t < duration"   *)
(* loop, as a function of the program state s and the draws d.  Every record  *)
(* carries "elapsed", the true elapsed time of its tick; it is not a field of *)
(* the emitted record (the code keeps only the timestamp) and is kept so that *)
(* properties can speak of it.                                                *)

\* the end of every iteration: append if a record was built, then t += step
end_of_tick(s, c, d, used, emit, rec) ==
    [s EXCEPT !.t = s.t + tick_step(c, d[used + 1]),
              !.rng = RngSkip[s.rng, used + 1],
              !.data = IF emit THEN Append(s.data, rec) ELSE s.data]

heart_rate_tick(s, d) ==
    LET cfg == s.configs[s.patient]
        inGap == is_in_gap(s.t, gaps_of(cfg, "heart_rate"))
        dropped == ~inGap /\ should_have_micro_dropout(5, d[1])
        hr == simulate_heart_rate(s.t, cfg.pattern, d[2])
        reading == heart_rate_reading(hr, d, 3)
        actual_ms == stamp_ms(cfg, "heart_rate", s.t) + Quot(s.t * s.drift, 100000)
        rec == [elapsed |-> s.t,
                timestamp |-> [instant |-> actual_ms, utcoffset |-> 0],
                bpm |-> reading.bpm,
                confidence |-> reading.confidence]
        used == IF inGap THEN 0 ELSE IF dropped THEN 1 ELSE 2 + reading.used
    IN  end_of_tick(s, "heart_rate", d, used, ~inGap /\ ~dropped, rec)

movement_tick(s, d) ==
    LET cfg == s.configs[s.patient]
        inGap == is_in_gap(s.t, gaps_of(cfg, "movement"))
        dropped == ~inGap /\ should_have_micro_dropout(3, d[1])
        m == simulate_movement(s.t, cfg.pattern, d, 2)
        i == 2 + m.used
        isNull == Random(d[i]) < 4
        record == [elapsed |-> s.t,
                   ts |-> stamp_ms(cfg, "movement", s.t),
                   x |-> <<m.x>>, y |-> <<m.y>>, z |-> <<m.z>>,
                   magnitude |-> <<m.magnitude>>]
        rec == IF isNull
               THEN [record EXCEPT !.x = <<>>, !.magnitude = <<>>]
               ELSE IF Random(d[i + 1]) < 2
               THEN [record EXCEPT !.x = <<999990>>, !.y = <<999990>>, !.z = <<999990>>,
                                   !.magnitude = <<999990>>]
               ELSE record
        used == IF inGap THEN 0 ELSE IF dropped THEN 1
                ELSE 1 + m.used + (IF isNull THEN 1 ELSE 2)
    IN  end_of_tick(s, "movement", d, used, ~inGap /\ ~dropped, rec)

blood_oxygen_tick(s, d) ==
    LET cfg == s.configs[s.patient]
        inGap == is_in_gap(s.t, gaps_of(cfg, "blood_oxygen"))
        dropped == ~inGap /\ should_have_micro_dropout(10, d[1])
        spo2 == simulate_spo2(s.t, cfg.pattern, d, 2)
        reading == corrupt_spo2(spo2, pulse_quality(spo2), d, 4)
        rec == [elapsed |-> s.t,
                time |-> stamp_ms(cfg, "blood_oxygen", s.t) \div 1000,
                spo2 |-> reading.spo2,
                pulse_quality |-> reading.quality,
                error |-> reading.error]
        used == IF inGap THEN 0 ELSE IF dropped THEN 1 ELSE 3 + reading.used
    IN  end_of_tick(s, "blood_oxygen", d, used, ~inGap /\ ~dropped, rec)

temperature_tick(s, d) ==
    LET cfg == s.configs[s.patient]
        inGap == is_in_gap(s.t, gaps_of(cfg, "temperature"))
        dropped == ~inGap /\ should_have_micro_dropout(15, d[1])
        emit == ~inGap /\ ~dropped
        temp == simulate_temperature(s.t, cfg.pattern, d[2])
        isSpike == Random(d[3]) < 15
        isLift == ~isSpike /\ Random(d[4]) < 10
        reported == IF isSpike THEN temp + RoundDiv(Uniform(3000, 8000, d[4]), 10)
                    ELSE IF isLift THEN temp - RoundDiv(Uniform(2000, 5000, d[5]), 10)
                    ELSE temp
        i == IF isSpike THEN 5 ELSE IF isLift THEN 6 ELSE 5
        drifted == Max(18000, Min(28000, s.ambient + Uniform(-20, 20, d[i])))
        rec == [elapsed |-> s.t,
                recorded_at |-> [instant |-> stamp_ms(cfg, "temperature", s.t),
                                 utcoffset |-> -5 * 3600],
                temp_celsius |-> reported,
                ambient_temp |-> RoundDiv(drifted, 100)]
        used == IF inGap THEN 0 ELSE IF dropped THEN 1 ELSE i
        next == end_of_tick(s, "temperature", d, used, emit, rec)
    IN  [next EXCEPT !.ambient = IF emit THEN drifted ELSE s.ambient]

load_tick(s, d) ==
    LET cfg == s.configs[s.patient]
        inGap == is_in_gap(s.t, gaps_of(cfg, "load"))
        dropped == ~inGap /\ should_have_micro_dropout(12, d[1])
        hr == simulate_heart_rate(s.t, cfg.pattern, d[2])
        load == simulate_load(s.t, hr, cfg.pattern, d[3])
        ts == load_timestamp(stamp_ms(cfg, "load", s.t), d, 4)
        i == 4 + ts.used
        final == load_error(load, activity_type(load), d[i])
        rec == [elapsed |-> s.t,
                timestamp |-> ts.text,
                load_score |-> final.load_score,
                activity_type |-> final.activity_type,
                hr_derived |-> Random(d[i + 1]) < 700]
        used == IF inGap THEN 0 ELSE IF dropped THEN 1 ELSE i + 1
    IN  end_of_tick(s, "load", d, used, ~inGap /\ ~dropped, rec)

\* the loop body of the generator main is running
tick(s, d) ==
    IF s.pc = "heart_rate" THEN heart_rate_tick(s, d)
    ELSE IF s.pc = "movement" THEN movement_tick(s, d)
    ELSE IF s.pc = "blood_oxygen" THEN blood_oxygen_tick(s, d)
    ELSE IF s.pc = "temperature" THEN temperature_tick(s, d)
    ELSE load_tick(s, d)

\* the statements of a generator before its loop: data = [], t = 0, and the one
\* draw the heart-rate (drift_rate) and temperature (ambient_temp) generators make
enter_generator(s) ==
    LET raw == RngSkip[s.rng, 1]
    IN  IF s.pc = "heart_rate"
        THEN [s EXCEPT !.phase = "loop", !.t = 0, !.data = <<>>,
                       !.drift = Uniform(-100, 100, raw), !.rng = raw]
        ELSE IF s.pc = "temperature"
        THEN [s EXCEPT !.phase = "loop", !.t = 0, !.data = <<>>,
                       !.ambient = 100 * RoundDiv(Uniform(20000, 24000, raw), 100), !.rng = raw]
        ELSE [s EXCEPT !.phase = "loop", !.t = 0, !.data = <<>>]

\* "while t < duration" of the generator main is running
loop_continues(s) == s.t < duration_of(s.configs[s.patient], s.pc)

\* return data; main saves it and goes on to the next generator or patient
return_and_save(s) ==
    LET key == <<s.patient, s.pc>>
        i == ChannelIndex(s.pc)
        last == i = Len(Channels)
    IN  [s EXCEPT !.files = [k \in DOMAIN s.files \cup {key} |->
                                IF k = key THEN s.data ELSE s.files[k]],
                  !.data = <<>>,
                  !.phase = "entry",
                  !.pc = IF ~last THEN Channels[i + 1]
                         ELSE IF s.patient < Len(s.configs) THEN Channels[1] ELSE "done",
                  !.patient = IF last /\ s.patient < Len(s.configs) THEN s.patient + 1
                              ELSE s.patient]

\* one step of a launch, drawing from its own random stream
program_step(s) ==
    IF s.pc = "done" THEN s
    ELSE IF s.phase = "entry" THEN enter_generator(s)
    ELSE IF loop_continues(s) THEN tick(s, StreamDraws(s.rng))
    ELSE return_and_save(s)

\* the state of a launch when main is entered: random.seed has run at import
launch(cfgs, seed, e) ==
    [configs |-> cfgs, env |-> e, rng |-> random_seed(seed, e), patient |-> 1,
     pc |-> Channels[1], phase |-> "entry", t |-> 0, drift |-> 0, ambient |-> 0,
     data |-> <<>>, files |-> [k \in {} |-> <<>>]]

----------------------------------------------------------------------------
(* Configurations *)

Config(pattern, halfSeconds, offsets, hrGaps, movementGaps, spo2Gaps, tempGaps, loadGaps) ==
    [pattern |-> pattern,
     duration_hours |-> halfSeconds,
     offset |-> [c \in ChannelSet |-> offsets[ChannelIndex(c)]],
     gaps |-> [c \in ChannelSet |->
                 IF c = "heart_rate" THEN hrGaps
                 ELSE IF c = "movement" THEN movementGaps
                 ELSE IF c = "blood_oxygen" THEN spo2Gaps
                 ELSE IF c = "temperature" THEN tempGaps
                 ELSE loadGaps]]

\* PATIENT_CONFIGS as written in the source (2.5 h, 3 h and 2 h sessions)
PATIENT_CONFIGS ==
    << Config("morning_routine", 18000, <<0, 443, 225, -900, 728>>,
              <<<<1200, 420>>, <<4200, 180>>, <<6300, 540>>>>,
              <<<<800, 300>>, <<2400, 600>>, <<5100, 240>>>>,
              <<<<1800, 1200>>, <<5400, 300>>>>,
              <<<<3000, 180>>>>,
              <<<<900, 480>>, <<3600, 360>>>>),
       Config("exercise_session", 21600, <<0, 942, 310, -480, 150>>,
              <<<<2100, 600>>, <<5400, 900>>, <<8400, 300>>>>,
              <<<<1500, 180>>, <<4800, 720>>, <<7200, 240>>>>,
              <<<<3000, 480>>, <<6600, 600>>>>,
              <<<<4200, 300>>, <<7800, 180>>>>,
              <<<<1800, 240>>, <<5400, 420>>>>),
       Config("resting", 14400, <<0, 255, 1350, -1500, 525>>,
              <<<<1500, 300>>, <<3600, 480>>>>,
              <<<<900, 420>>, <<2700, 180>>, <<4500, 360>>>>,
              <<<<600, 540>>>>,
              <<<<1800, 240>>, <<4200, 180>>>>,
              <<<<2100, 300>>, <<4800, 240>>>>) >>

\* Sessions of a few seconds with the same shape (late and early starts, several
\* gaps per channel, overlapping gaps), so that whole runs of main can be
\* explored; the last one has a non-positive duration.
ModelConfigs ==
    << Config("morning_routine", 11, <<0, 7, 3, -15, 12>>,
              <<<<1, 2>>, <<4, 1>>>>,
              <<<<1, 1>>, <<3, 1>>>>,
              <<<<2, 2>>>>,
              <<<<100, 60>>, <<130, 50>>, <<400, 30>>>>,
              <<<<4, 2>>>>),
       Config("exercise_session", 12, <<0, 15, 5, -8, 2>>,
              <<<<2, 1>>, <<2, 2>>>>,
              <<<<0, 1>>, <<2, 1>>, <<4, 1>>>>,
              <<<<0, 2>>, <<4, 1>>>>,
              <<<<50, 40>>, <<300, 100>>>>,
              <<<<0, 1>>>>),
       Config("resting", 8, <<0, 4, 22, -25, 8>>,
              <<<<0, 1>>, <<2, 1>>>>,
              <<<<1, 2>>>>,
              <<<<1, 1>>>>,
              <<<<200, 100>>, <<250, 100>>>>,
              <<<<1, 2>>>>),
       Config("resting", 0, <<0, 1, 2, -3, 4>>,
              <<<<0, 1>>>>, <<>>, <<>>, <<<<10, 100>>>>, <<>>) >>

\* the patient lists explored: up to MaxPatients consecutive model configurations
Rosters ==
    LET n == Len(ModelConfigs)
    IN  {SubSeq(ModelConfigs, p[1], p[2]) :
            p \in {q \in (1..n) \X (1..n) : q[1] <= q[2] /\ q[2] - q[1] < MaxPatients}}

Seeds == {DefaultSeed + k : k \in 0..MaxSeedOffset}

----------------------------------------------------------------------------
(* The program as a state machine *)

Cur ==
    [configs |-> configs, env |-> env, rng |-> rng, patient |-> patient, pc |-> pc,
     phase |-> phase, t |-> t, drift |-> drift, ambient |-> ambient, data |-> data,
     files |-> files]

Become(s) ==
    /\ configs' = s.configs
    /\ env' = s.env
    /\ rng' = s.rng
    /\ patient' = s.patient
    /\ pc' = s.pc
    /\ phase' = s.phase
    /\ t' = s.t
    /\ drift' = s.drift
    /\ ambient' = s.ambient
    /\ data' = s.data
    /\ files' = s.files

\* the variables hold the launch state s
Holds(s) ==
    /\ configs = s.configs
    /\ env = s.env
    /\ rng = s.rng
    /\ patient = s.patient
    /\ pc = s.pc
    /\ phase = s.phase
    /\ t = s.t
    /\ drift = s.drift
    /\ ambient = s.ambient
    /\ data = s.data
    /\ files = s.files

Init ==
    \E r \in Rosters, seed \in Seeds :
        /\ Holds(launch(r, seed, 0))
        /\ twin = launch(r, seed, 1)

\* main calls a generator: its statements before the loop
EnterGenerator ==
    /\ pc # "done"
    /\ phase = "entry"
    /\ Become(enter_generator(Cur))
    /\ UNCHANGED twin

\* one iteration of "while t < duration" in generate_heart_rate_data
generate_heart_rate_data ==
    /\ pc = "heart_rate"
    /\ phase = "loop"
    /\ loop_continues(Cur)
    /\ \E d \in {StreamDraws(rng)} : Become(heart_rate_tick(Cur, d))
    /\ UNCHANGED twin

\* one iteration of "while t < duration" in generate_movement_data
generate_movement_data ==
    /\ pc = "movement"
    /\ phase = "loop"
    /\ loop_continues(Cur)
    /\ \E d \in {StreamDraws(rng)} : Become(movement_tick(Cur, d))
    /\ UNCHANGED twin

\* one iteration of "while t < duration" in generate_blood_oxygen_data
generate_blood_oxygen_data ==
    /\ pc = "blood_oxygen"
    /\ phase = "loop"
    /\ loop_continues(Cur)
    /\ \E d \in {StreamDraws(rng)} : Become(blood_oxygen_tick(Cur, d))
    /\ UNCHANGED twin

\* one iteration of "while t < duration" in generate_temperature_data
generate_temperature_data ==
    /\ pc = "temperature"
    /\ phase = "loop"
    /\ loop_continues(Cur)
    /\ \E d \in {StreamDraws(rng)} : Become(temperature_tick(Cur, d))
    /\ UNCHANGED twin

\* one iteration of "while t < duration" in generate_load_data
generate_load_data ==
    /\ pc = "load"
    /\ phase = "loop"
    /\ loop_continues(Cur)
    /\ \E d \in {StreamDraws(rng)} : Become(load_tick(Cur, d))
    /\ UNCHANGED twin

\* the loop ends, the generator returns and main writes the file
SaveAndAdvance ==
    /\ pc # "done"
    /\ phase = "loop"
    /\ ~loop_continues(Cur)
    /\ Become(return_and_save(Cur))
    /\ UNCHANGED twin

Next ==
    \/ EnterGenerator
    \/ generate_heart_rate_data
    \/ generate_movement_data
    \/ generate_blood_oxygen_data
    \/ generate_temperature_data
    \/ generate_load_data
    \/ SaveAndAdvance

Spec == Init /\ [][Next]_vars

\* main is sequential code with no suspension point: it keeps running
FairSpec == Init /\ [][Next]_vars /\ WF_vars(Next)

----------------------------------------------------------------------------
(* Single iterations at chosen elapsed times.  A whole 2-3 hour session is    *)
(* tens of thousands of iterations; the record an iteration emits depends     *)
(* only on t, the configuration and the draws, so the pattern models and the  *)
(* corruption branches are explored by entering a loop at a time it can       *)
(* reach, with PATIENT_CONFIGS' sessions under each activity pattern, and     *)
(* running one iteration under every combination of extreme and median        *)
(* draws and under a number of streams.                                       *)

ProbeConfigs ==
    {[PATIENT_CONFIGS[i] EXCEPT !.pattern = p] : i \in 1..Len(PATIENT_CONFIGS), p \in Patterns}

\* elapsed times (centiseconds) around the phase boundaries of 2 h, 2.5 h and 3 h
ProbeTimes ==
    {0, 120000, 215900, 216000, 250000, 270000, 323900, 324000, 324100, 500000,
     504000, 630000, 755900, 756000, 756100, 900000, 1000000, 1079900}

RawSamples == {0, RngMod \div 2, RngMod - 1}

ProbeSeeds == {(k * 1571 + 7) % RngMod : k \in 0..MaxProbeSeed}

ProbeDraws(n) ==
    [1..n -> RawSamples] \cup {[i \in 1..n |-> RngSkip[r, i]] : r \in ProbeSeeds}

ProbeInit ==
    \E cfg \in ProbeConfigs, c \in {"heart_rate", "blood_oxygen", "load"}, tc \in ProbeTimes :
        /\ tc < duration_of(cfg, c)
        /\ Holds([launch(<<cfg>>, DefaultSeed, 0) EXCEPT
                    !.pc = c, !.phase = "loop", !.t = tc, !.drift = 100])
        /\ twin = launch(<<cfg>>, DefaultSeed, 1)

ProbeHeartRate ==
    /\ pc = "heart_rate"
    /\ phase = "loop"
    /\ loop_continues(Cur)
    /\ \E d \in ProbeDraws(6) : Become([heart_rate_tick(Cur, d) EXCEPT !.phase = "probed"])
    /\ UNCHANGED twin

ProbeBloodOxygen ==
    /\ pc = "blood_oxygen"
    /\ phase = "loop"
    /\ loop_continues(Cur)
    /\ \E d \in ProbeDraws(7) : Become([blood_oxygen_tick(Cur, d) EXCEPT !.phase = "probed"])
    /\ UNCHANGED twin

ProbeLoad ==
    /\ pc = "load"
    /\ phase = "loop"
    /\ loop_continues(Cur)
    /\ \E d \in ProbeDraws(8) : Become([load_tick(Cur, d) EXCEPT !.phase = "probed"])
    /\ UNCHANGED twin

ProbeNext == ProbeHeartRate \/ ProbeBloodOxygen \/ ProbeLoad

ProbeSpec == ProbeInit /\ [][ProbeNext]_vars

----------------------------------------------------------------------------
(* Two launches side by side.  The second launch (twin) starts from the same  *)
(* seed in another environment, with the same PATIENT_CONFIGS or with one     *)
(* channel of one patient changed (its gap schedule or its start offset).     *)
(* Both take their steps together; a launch that has finished stays put.      *)

alter_gaps(cfg, c) ==
    [cfg EXCEPT !.gaps[c] = IF @ = <<>> THEN <<<<0, 1>>>> ELSE Tail(@)]

alter_offset(cfg, c) == [cfg EXCEPT !.offset[c] = @ + 5]

Variants(r) ==
    {r} \cup {[r EXCEPT ![p] = alter_gaps(r[p], c)] : p \in 1..Len(r), c \in ChannelSet}
        \cup {[r EXCEPT ![p] = alter_offset(r[p], c)] : p \in 1..Len(r), c \in ChannelSet}

PairRosters == {SubSeq(ModelConfigs, 1, n) : n \in 1..MaxPatients}

PairInit ==
    \E r \in PairRosters, seed \in {DefaultSeed, DefaultSeed + MaxSeedOffset} :
        \E r2 \in Variants(r) :
            /\ Holds(launch(r, seed, 0))
            /\ twin = launch(r2, seed, 1)

PairStep ==
    /\ pc # "done"
    /\ Become(program_step(Cur))
    /\ twin' = program_step(twin)

TwinFinishes ==
    /\ pc = "done"
    /\ twin.pc # "done"
    /\ twin' = program_step(twin)
    /\ UNCHANGED <<configs, env, rng, patient, pc, phase, t, drift, ambient, data, files>>

PairNext == PairStep \/ TwinFinishes

PairSpec == PairInit /\ [][PairNext]_vars

----------------------------------------------------------------------------
(* Properties *)

\* the records of patient p's channel c: the saved file, or the list being built
Emitted(p, c) ==
    IF <<p, c>> \in DOMAIN files THEN files[<<p, c>>]
    ELSE IF p = patient /\ c = pc THEN data
    ELSE <<>>

\* start <= e < start + duration for the gap g = (start, duration) in seconds
InsideGap(e, g) == 100 * g[1] <= e /\ e < 100 * (g[1] + g[2])

\* C1: gap exclusion.  For each of the five generators, no emitted record has a
\* true elapsed time inside any gap configured for its channel, overlapping
\* gaps included.
C1_GapExclusion ==
    \A p \in 1..Len(configs), c \in ChannelSet :
        \A i \in 1..Len(Emitted(p, c)), j \in 1..Len(configs[p].gaps[c]) :
            ~InsideGap(Emitted(p, c)[i].elapsed, configs[p].gaps[c][j])

\* a saved movement file with records on both sides of a gap that is not the
\* first of its schedule: the sub-second ticks in between were all suppressed
C1_Witness ==
    \E p \in 1..Len(configs) :
        /\ <<p, "movement">> \in DOMAIN files
        /\ \E j \in 2..Len(configs[p].gaps["movement"]) :
            LET g == configs[p].gaps["movement"][j]
                rows == files[<<p, "movement">>]
            IN  /\ \E i \in 1..Len(rows) : rows[i].elapsed < 100 * g[1]
                /\ \E i \in 1..Len(rows) : rows[i].elapsed >= 100 * (g[1] + g[2])

\* C2: every heart-rate record has bpm = -1 or 45 <= bpm <= 185; confidence is
\* 0.0 exactly when bpm = -1 and otherwise lies in [0.2, 0.99] (hundredths).
C2_HeartRateRecord ==
    pc = "heart_rate" =>
        \A i \in 1..Len(data) :
            /\ data[i].bpm = -1 \/ data[i].bpm \in 45..185
            /\ data[i].confidence = 0 <=> data[i].bpm = -1
            /\ data[i].bpm # -1 => data[i].confidence \in 20..99

\* an emitted heart-rate record held at the upper clamp, in the low-confidence branch
C2_Witness ==
    /\ pc = "heart_rate"
    /\ \E i \in 1..Len(data) : data[i].bpm = 185 /\ data[i].confidence \in 20..50

\* C3: a blood-oxygen record is "poor" whenever spo2 < 94 or an error branch
\* fired, and an error branch puts spo2 outside [90, 100]; without an error
\* spo2 is in [90, 100] and the quality is good for spo2 >= 97, fair for
\* 94 <= spo2 < 97 and poor below (tenths of a percent).
C3_PulseQuality ==
    pc = "blood_oxygen" =>
        \A i \in 1..Len(data) :
            LET r == data[i]
            IN  /\ (r.spo2 < 940 \/ r.error) => r.pulse_quality = "poor"
                /\ r.error => r.spo2 \notin 900..1000
                /\ ~r.error =>
                      /\ r.spo2 \in 900..1000
                      /\ r.spo2 >= 970 => r.pulse_quality = "good"
                      /\ (r.spo2 >= 940 /\ r.spo2 < 970) => r.pulse_quality = "fair"
                      /\ r.spo2 < 940 => r.pulse_quality = "poor"

\* an emitted record whose reading, good before the error, was replaced by an
\* impossible high value
C3_Witness ==
    /\ pc = "blood_oxygen"
    /\ \E i \in 1..Len(data) :
          data[i].error /\ data[i].spo2 > 1000 /\ data[i].pulse_quality = "poor"

\* C4: a channel configured with a non-positive duration is a fatal
\* configuration error reported at startup: no generator emits a record and no
\* file is written.
C4_InvalidConfigRejected ==
    (\E p \in 1..Len(configs) : configs[p].duration_hours <= 0) =>
        (DOMAIN files = {} /\ data = <<>>)

\* C7: the true elapsed time of an emitted record never exceeds the duration
\* its generator runs for: int(duration_hours * 3600), and for temperature
\* that value extended by |temp_offset| + 600 seconds.
C7_WithinDuration ==
    \A p \in 1..Len(configs), c \in ChannelSet :
        \A i \in 1..Len(Emitted(p, c)) :
            Emitted(p, c)[i].elapsed <=
                100 * (Quot(configs[p].duration_hours, 2)
                       + IF c = "temperature"
                         THEN Abs(configs[p].offset["temperature"]) + 600 ELSE 0)

\* a saved temperature file reaching into the extension, beside a saved
\* heart-rate file of the same patient that has records
C7_Witness ==
    \E p \in 1..Len(configs) :
        /\ <<p, "temperature">> \in DOMAIN files
        /\ files[<<p, "heart_rate">>] # <<>>
        /\ \E i \in 1..Len(files[<<p, "temperature">>]) :
              files[<<p, "temperature">>][i].elapsed
                  > 100 * (Quot(configs[p].duration_hours, 2) + 590)

\* C8: every load record has load_score = -1 or 0 <= load_score <= 100;
\* activity_type is "unknown" exactly when load_score = -1 and otherwise rest
\* below 20, walk below 50, exercise from 50.
C8_LoadRecord ==
    pc = "load" =>
        \A i \in 1..Len(data) :
            LET r == data[i]
            IN  /\ r.load_score = -1 \/ r.load_score \in 0..100
                /\ r.activity_type = "unknown" <=> r.load_score = -1
                /\ (r.load_score # -1 /\ r.load_score < 20) => r.activity_type = "rest"
                /\ (r.load_score >= 20 /\ r.load_score < 50) => r.activity_type = "walk"
                /\ r.load_score >= 50 => r.activity_type = "exercise"

\* an emitted load record of the exercise mid-phase carrying the error sentinel
C8_Witness ==
    /\ pc = "load"
    /\ configs[1].pattern = "exercise_session"
    /\ \E i \in 1..Len(data) :
          /\ MidPhase(data[i].elapsed)
          /\ data[i].load_score = -1
          /\ data[i].activity_type = "unknown"

\* the duration a generator runs for, restated from the configuration
RunsFor(cfg, c) ==
    100 * (Quot(cfg.duration_hours, 2)
           + IF c = "temperature" THEN Abs(cfg.offset["temperature"]) + 600 ELSE 0)

\* C9: in every generator t strictly increases at each loop iteration (record
\* emitted, gap, or dropout alike), iterations happen only while t is below the
\* duration, the loop is left only once t has reached it, and main reaches its
\* end.
C9_Termination ==
    /\ [][(phase = "loop" /\ phase' = "loop") =>
            (t < RunsFor(configs[patient], pc) /\ t' > t)]_vars
    /\ [][(phase = "loop" /\ phase' = "entry") =>
            t >= RunsFor(configs[patient], pc)]_vars
    /\ <>(pc = "done")

\* main has ended, every file is written, and some tick of every channel of the
\* first patient was suppressed or emitted
C9_Witness ==
    /\ pc = "done"
    /\ \A p \in 1..Len(configs), c \in ChannelSet : <<p, c>> \in DOMAIN files
    /\ \A c \in ChannelSet : files[<<1, c>>] # <<>>

\* the phase the claim gives elapsed time e of a session of duration dur
PhaseByDuration(e, dur) ==
    IF 10 * e < 3 * dur THEN "ramp_up"
    ELSE IF 10 * e < 7 * dur THEN "plateau"
    ELSE "ramp_down"

\* C10: for exercise_session the heart-rate model's ramp-up, plateau and
\* ramp-down cover the first 30%, the middle 40% and the last 30% of the
\* channel's configured duration, whatever the duration; 30% belongs to the
\* plateau and 70% to the ramp-down.
C10_PhasesFollowDuration ==
    (pc = "heart_rate" /\ configs[1].pattern = "exercise_session") =>
        \A i \in 1..Len(data) :
            HrPhase(data[i].elapsed)
                = PhaseByDuration(data[i].elapsed, duration_of(configs[1], "heart_rate"))

\* C5: two launches from the same seed with the same PATIENT_CONFIGS write the
\* same records, field for field and in the same order, for every patient and
\* channel, and build the same lists on the way.
C5_Determinism ==
    twin.configs = configs =>
        /\ twin.files = files
        /\ twin.data = data

\* both launches have ended, in different environments, with records written
C5_Witness ==
    /\ twin.configs = configs
    /\ twin.env # env
    /\ pc = "done"
    /\ twin.pc = "done"
    /\ \A c \in ChannelSet : files[<<1, c>>] # <<>>

\* what channel c's generator reads of a patient's configuration
Own(cfg, c) == <<cfg.pattern, cfg.duration_hours, cfg.offset[c], cfg.gaps[c]>>

\* the two launches differ in patient p alone, and not in what channel c reads
OnlyOtherChannelsChanged(p, c) ==
    /\ twin.configs # configs
    /\ \A q \in 1..Len(configs) : q # p => twin.configs[q] = configs[q]
    /\ Own(twin.configs[p], c) = Own(configs[p], c)

BothSaved(p, c) == <<p, c>> \in DOMAIN files /\ <<p, c>> \in DOMAIN twin.files

\* C6 as claimed: for a fixed seed, changing only another channel's gap
\* schedule or offset leaves this channel's records unchanged.
C6_ChannelIndependence ==
    \A p \in 1..Len(configs), c \in ChannelSet :
        (OnlyOtherChannelsChanged(p, c) /\ BothSaved(p, c)) =>
            twin.files[<<p, c>>] = files[<<p, c>>]

\* channel k's change cannot reach the random stream before channel c has run:
\* k is generated after c, or only the start offset of k changed and k is not
\* the temperature channel (whose offset sets the length of its run)
Harmless(p, c, k) ==
    \/ Own(twin.configs[p], k) = Own(configs[p], k)
    \/ ChannelIndex(k) > ChannelIndex(c)
    \/ k # "temperature" /\ twin.configs[p].gaps[k] = configs[p].gaps[k]

\* C6 as amended: for a fixed seed, a channel's records are unchanged by a
\* change to another channel's start offset (temperature's excepted) and by a
\* change to the gap schedule or offset of a channel generated after it.
C6_IndependenceOfLaterChannels ==
    \A p \in 1..Len(configs), c \in ChannelSet :
        (/\ OnlyOtherChannelsChanged(p, c)
         /\ BothSaved(p, c)
         /\ \A k \in ChannelSet : Harmless(p, c, k)) =>
            twin.files[<<p, c>>] = files[<<p, c>>]

\* both launches have ended; the load channel's gap schedule differs and the
\* heart-rate file, written four generators earlier, has records
C6_Witness ==
    /\ pc = "done"
    /\ twin.pc = "done"
    /\ \E p \in 1..Len(configs) :
          /\ OnlyOtherChannelsChanged(p, "heart_rate")
          /\ twin.configs[p].gaps["load"] # configs[p].gaps["load"]
          /\ files[<<p, "heart_rate">>] # <<>>
          /\ twin.files[<<p, "load">>] # files[<<p, "load">>]

====
